---- MODULE Spec2Model ----
(***************************************************************************)
(* Model of utils/common_functions.py of powerful-benchmarker: the YAML    *)
(* configuration persistence with resume diffs (save_config_files,         *)
(* get_all_resume_training_config_diffs), the checkpoint version scan      *)
(* (latest_version, latest_sub_experiment_epochs) and the checkpoint       *)
(* save/load fallbacks (save_model_or_optimizer, load_model).              *)
(*                                                                         *)
(* Python strings are sequences of one-character strings, so that split,   *)
(* join, startswith, int() and str() are computed character by character.  *)
(* A Python dict is a function from its keys; a value is a tagged record   *)
(* (a scalar or a nested dict), since dict equality ignores key order.     *)
(***************************************************************************)
EXTENDS Integers, Sequences, FiniteSets, TLC

(***************************************************************************)
(* Bounds of the model.                                                    *)
(***************************************************************************)
\* documents handed to one save_config_files call
MaxDocs == 2
\* diff mappings appended to resume diff files over a behaviour
MaxDiffWrites == 2
\* sub-experiments whose epochs name a resume diff folder
MaxSubExperiments == 2
\* training sets per split scheme
MaxTrainingSets == 2
\* epochs a checkpoint is saved at
MaxEpoch == 2

\* F applied to the value of x, with x evaluated once
With(x, F(_)) == CHOOSE r \in {F(v) : v \in {x}} : TRUE

(***************************************************************************)
(* Strings.                                                                *)
(***************************************************************************)
Digits == <<"0", "1", "2", "3", "4", "5", "6", "7", "8", "9">>

\* str.startswith
StartsWith(s, p) ==
    /\ Len(s) >= Len(p)
    /\ SubSeq(s, 1, Len(p)) = p

\* str.endswith
EndsWith(s, p) ==
    /\ Len(s) >= Len(p)
    /\ SubSeq(s, Len(s) - Len(p) + 1, Len(s)) = p

\* the first position of c in s, 0 when there is none
RECURSIVE Find(_, _, _)
Find(s, c, i) ==
    IF i > Len(s) THEN 0
    ELSE IF s[i] = c THEN i
    ELSE Find(s, c, i + 1)

\* str.split(sep) for a one-character separator: always at least one piece
RECURSIVE Split(_, _)
Split(s, sep) ==
    With(Find(s, sep, 1),
         LAMBDA i : IF i = 0 THEN <<s>>
                    ELSE <<SubSeq(s, 1, i - 1)>> \o Split(SubSeq(s, i + 1, Len(s)), sep))

\* sep.join(parts)
RECURSIVE Join(_, _)
Join(parts, sep) ==
    IF Len(parts) = 0 THEN <<>>
    ELSE IF Len(parts) = 1 THEN parts[1]
    ELSE parts[1] \o sep \o Join(Tail(parts), sep)

\* str(n) for an int n >= 0
RECURSIVE IntToStr(_)
IntToStr(n) ==
    IF n < 10 THEN <<Digits[n + 1]>>
    ELSE IntToStr(n \div 10) \o <<Digits[(n % 10) + 1]>>

IsDigit(c) == \E d \in 1..10 : Digits[d] = c

DigitValue(c) == (CHOOSE d \in 1..10 : Digits[d] = c) - 1

\* int(s) accepts a non-empty run of decimal digits; anything else is a ValueError
IsIntLiteral(s) ==
    /\ Len(s) > 0
    /\ \A i \in 1..Len(s) : IsDigit(s[i])

RECURSIVE ParseInt(_)
ParseInt(s) ==
    IF Len(s) = 0 THEN 0
    ELSE 10 * ParseInt(SubSeq(s, 1, Len(s) - 1)) + DigitValue(s[Len(s)])

\* os.path.splitext(name)[0]: the name up to its last dot; leading dots are
\* not an extension separator
SplitExtRoot(name) ==
    LET dots == {i \in 1..Len(name) :
                    /\ name[i] = "."
                    /\ \E h \in 1..(i - 1) : name[h] # "."}
    IN  IF dots = {} THEN name
        ELSE SubSeq(name, 1, (CHOOSE i \in dots : \A j \in dots : j <= i) - 1)


(***************************************************************************)
(* State.                                                                  *)
(*   configFolderExists  the config folder has been created                *)
(*   categoryFiles       file name -> content, the files directly in the   *)
(*                       config folder                                     *)
(*   diffFolders         directory name -> (file name -> content), the     *)
(*                       directories in the config folder                  *)
(*   modelFolders        sub-experiment -> (file name -> content), the     *)
(*                       checkpoint directories                            *)
(*   call                the last operation: its arguments and outcome     *)
(* The content of a YAML file is the sequence of mappings dumped into it;  *)
(* the content of a checkpoint file is the set of keys of the state dict.  *)
(***************************************************************************)
VARIABLES configFolderExists, categoryFiles, diffFolders, modelFolders, call

vars == <<configFolderExists, categoryFiles, diffFolders, modelFolders, call>>

\* a function with no argument: an empty dict, an empty directory
Empty == [x \in {} |-> 0]

\* f with f[k] set to v, k added to the domain when missing
Put(f, k, v) == [x \in DOMAIN f \cup {k} |-> IF x = k THEN v ELSE f[x]]

(***************************************************************************)
(* Values of a configuration document.                                     *)
(***************************************************************************)
Scalar(n) == [isdict |-> FALSE, n |-> n, d |-> Empty]

Dict(d) == [isdict |-> TRUE, n |-> 0, d |-> d]

DocA == [a |-> Scalar(1), b |-> Dict([c |-> Scalar(2)])]

DocB == [b |-> Dict([c |-> Scalar(1), d |-> Scalar(3)])]

Docs == {DocA, DocB}

\* source paths of the documents
PathGeneral ==
    <<"c", "/", "c", "o", "n", "f", "i", "g", "_", "g", "/", "d", ".", "y">>

PathOptimizers == <<"c", "/", "o", "p", "t", ".", "y">>

PathBare == <<"m", ".", "y">>

\* the configuration files of an experiment, in the order they are read
CfgPaths == <<PathGeneral, PathOptimizers>>

\* latest_epochs: one epoch per sub-experiment, in the caller's order
EpochLists(epochs) == UNION {[1..n -> epochs] : n \in 1..MaxSubExperiments}

\* the epochs of one experiment with two sub-experiments, at two moments
CfgEpochLists == {<<5, 5>>, <<5, 12>>}

\* dict_of_yamls: an ordered mapping from path to document; the documents of
\* up to MaxDocs of the paths, in the order of paths
DictsOfYamls(paths, docs) ==
    UNION {{[i \in 1..n |-> [k |-> paths[idx[i]], v |-> dv[i]]] :
               idx \in {f \in [1..n -> 1..Len(paths)] :
                           \A i, j \in 1..n : i < j => f[i] < f[j]},
               dv \in [1..n -> docs]} : n \in 1..MaxDocs}

(***************************************************************************)
(* YAML files.                                                             *)
(***************************************************************************)
\* dict.update: the entries of y over those of x
Update(x, y) ==
    [k \in DOMAIN x \cup DOMAIN y |-> IF k \in DOMAIN y THEN y[k] ELSE x[k]]

\* load_yaml: the mappings dumped into the file read as one mapping, a key
\* that occurs again taking its last value. A file is never left without a
\* dumped mapping.
RECURSIVE load_yaml(_)
load_yaml(content) ==
    IF Len(content) = 1 THEN content[1]
    ELSE Update(load_yaml(SubSeq(content, 1, Len(content) - 1)), content[Len(content)])

\* write_yaml into directory dir: 'w' truncates the file, 'a' appends to it
write_yaml(dir, fname, input_dict, open_as) ==
    IF open_as = "a" /\ fname \in DOMAIN dir
    THEN Put(dir, fname, Append(dir[fname], input_dict))
    ELSE Put(dir, fname, <<input_dict>>)

(***************************************************************************)
(* emag_utils.merge_two_dicts(x, y, max_merge_depth): the entries of y     *)
(* win; below the maximum depth two mappings under the same key are merged *)
(* recursively. max_merge_depth is [inf, n]: float('inf') or the int n.    *)
(***************************************************************************)
DepthBelow(curr_depth, max_merge_depth) ==
    max_merge_depth.inf \/ curr_depth < max_merge_depth.n

RECURSIVE merge_two_dicts(_, _, _, _)
merge_two_dicts(x, y, curr_depth, max_merge_depth) ==
    [k \in DOMAIN x \cup DOMAIN y |->
        IF k \notin DOMAIN y THEN x[k]
        ELSE IF /\ k \in DOMAIN x
                /\ x[k].isdict
                /\ y[k].isdict
                /\ DepthBelow(curr_depth, max_merge_depth)
             THEN Dict(merge_two_dicts(x[k].d, y[k].d, curr_depth + 1, max_merge_depth))
             ELSE y[k]]

(***************************************************************************)
(* save_config_files.                                                      *)
(***************************************************************************)
ConfigPrefix == <<"c", "o", "n", "f", "i", "g", "_">>

YamlExt == <<".", "y", "a", "m", "l">>

DiffFolderBase ==
    <<"r", "e", "s", "u", "m", "e", "_", "t", "r", "a", "i", "n", "i", "n", "g", "_",
      "c", "o", "n", "f", "i", "g", "_", "d", "i", "f", "f", "s", "_">>

\* k_split[-2] is an IndexError when the path has a single segment
HasCategory(k_split) == Len(k_split) >= 2

\* config_category_name of the document whose path splits into k_split
CategoryName(k_split) ==
    With(k_split[Len(k_split) - 1],
         LAMBDA config_category_name :
             IF StartsWith(config_category_name, ConfigPrefix)
             THEN config_category_name
             ELSE SplitExtRoot(k_split[Len(k_split)]))

\* the file name of a category, in the config folder and in a diff folder
CategoryFile(config_category_name) == config_category_name \o YamlExt

\* the two merge depths exchanged
MaxMergeDepthSwapped(reproduce_results) == [inf |-> reproduce_results, n |-> 0]

\* max_merge_depth=0 if reproduce_results else float('inf')
MaxMergeDepth(reproduce_results) == [inf |-> ~reproduce_results, n |-> 0]

\* yaml_diff without the comparison of the values
YamlDiffMissingOnly(v, curr_yaml, keys) ==
    [k \in {x \in keys : x \notin DOMAIN curr_yaml} |-> v[k]]

\* the loop over v.items() that collects yaml_diff, key by key
RECURSIVE YamlDiff(_, _, _)
YamlDiff(v, curr_yaml, keys) ==
    IF keys = {} THEN Empty
    ELSE LET k2 == CHOOSE x \in keys : TRUE
             rest == YamlDiff(v, curr_yaml, keys \ {k2})
         IN  IF (k2 \notin DOMAIN curr_yaml) \/ (v[k2] # curr_yaml[k2])
             THEN Put(rest, k2, v[k2])
             ELSE rest

\* the name of the resume diff folder with the epochs in reverse order
DiffFolderNameReversed(latest_epochs) ==
    DiffFolderBase
        \o Join([i \in 1..Len(latest_epochs) |->
                    IntToStr(latest_epochs[Len(latest_epochs) + 1 - i])], <<"_">>)

\* the name of the resume diff folder
DiffFolderName(latest_epochs) ==
    DiffFolderBase
        \o Join([i \in 1..Len(latest_epochs) |-> IntToStr(latest_epochs[i])], <<"_">>)

\* makedir_if_not_there on a directory of the config folder
MakeDir(dirs, dir_name) ==
    IF dir_name \in DOMAIN dirs THEN dirs ELSE Put(dirs, dir_name, Empty)

\* the diff mapping written with 'w'
DiffOpenAsTruncate == "w"

\* the mode the diff mapping is written with
DiffOpenAs == "a"

\* the fresh branch for one document: merge into the stored document, overwrite
FreshBranch(st, fname, v, reproduce_results) ==
    [st EXCEPT !.files =
                   write_yaml(st.files, fname,
                              IF fname \in DOMAIN st.files
                              THEN merge_two_dicts(load_yaml(st.files[fname]), v, 0,
                                                   MaxMergeDepth(reproduce_results))
                              ELSE v,
                              "w"),
               !.done = st.done + 1]

\* the diff mapping written over the category file itself
WriteDiffInPlace(st, fname, yaml_diff, new_dir) ==
    [st EXCEPT !.files = write_yaml(st.files, fname, yaml_diff, DiffOpenAs),
               !.done = st.done + 1]

\* the diff mapping appended to the file of the category in the diff folder
WriteDiff(st, fname, yaml_diff, new_dir) ==
    With(MakeDir(st.dirs, new_dir),
         LAMBDA made :
             [st EXCEPT !.dirs = Put(made, new_dir,
                                     write_yaml(made[new_dir], fname, yaml_diff,
                                                DiffOpenAs)),
                        !.done = st.done + 1])

\* the resume branch without the test for an empty diff
ResumeBranchAlwaysWrites(st, fname, v, latest_epochs) ==
    IF fname \notin DOMAIN st.files
    THEN [st EXCEPT !.raised = "FileNotFoundError"]
    ELSE WriteDiff(st, fname, YamlDiff(v, load_yaml(st.files[fname]), DOMAIN v),
                   DiffFolderName(latest_epochs))

\* the resume branch for one document: append the changed keys to the diff folder
ResumeBranch(st, fname, v, latest_epochs) ==
    IF fname \notin DOMAIN st.files
    THEN [st EXCEPT !.raised = "FileNotFoundError"]
    ELSE With(YamlDiff(v, load_yaml(st.files[fname]), DOMAIN v),
              LAMBDA yaml_diff :
                  IF yaml_diff # Empty
                  THEN WriteDiff(st, fname, yaml_diff, DiffFolderName(latest_epochs))
                  ELSE [st EXCEPT !.done = st.done + 1])

\* one iteration of the loop over dict_of_yamls.items()
ProcessDocument(st, k, v, resume_training, reproduce_results, latest_epochs) ==
    With(Split(k, "/"),
         LAMBDA k_split :
             IF ~HasCategory(k_split)
             THEN [st EXCEPT !.raised = "IndexError"]
             ELSE With(CategoryFile(CategoryName(k_split)),
                       LAMBDA fname :
                           IF ~resume_training
                           THEN FreshBranch(st, fname, v, reproduce_results)
                           ELSE ResumeBranch(st, fname, v, latest_epochs)))

\* the loop: an exception ends it, what was written before stays written
RECURSIVE ProcessDocuments(_, _, _, _, _, _)
ProcessDocuments(st, dict_of_yamls, i, resume_training, reproduce_results, latest_epochs) ==
    IF i > Len(dict_of_yamls) \/ st.raised # "none" THEN st
    ELSE With(ProcessDocument(st, dict_of_yamls[i].k, dict_of_yamls[i].v,
                              resume_training, reproduce_results, latest_epochs),
              LAMBDA next :
                  ProcessDocuments(next, dict_of_yamls, i + 1, resume_training,
                                   reproduce_results, latest_epochs))

\* the number of diff mappings in the resume diff folders, which MaxDiffWrites
\* bounds
RECURSIVE SumLen(_, _)
SumLen(dir, names) ==
    IF names = {} THEN 0
    ELSE LET f == CHOOSE x \in names : TRUE
         IN  Len(dir[f]) + SumLen(dir, names \ {f})

RECURSIVE DiffWrites(_, _)
DiffWrites(dirs, names) ==
    IF names = {} THEN 0
    ELSE LET d == CHOOSE x \in names : TRUE
         IN  SumLen(dirs[d], DOMAIN dirs[d]) + DiffWrites(dirs, names \ {d})

SaveConfigFiles(dict_of_yamls, resume_training, reproduce_results, latest_epochs) ==
    \E st \in {ProcessDocuments(
                  [files |-> categoryFiles, dirs |-> diffFolders, raised |-> "none",
                   done |-> 0],
                  dict_of_yamls, 1, resume_training, reproduce_results, latest_epochs)} :
        /\ DiffWrites(st.dirs, DOMAIN st.dirs) <= MaxDiffWrites
        /\ configFolderExists' = TRUE
        /\ categoryFiles' = st.files
        /\ diffFolders' = st.dirs
        /\ call' = [op |-> "save_config_files",
                    dict_of_yamls |-> dict_of_yamls,
                    resume_training |-> resume_training,
                    reproduce_results |-> reproduce_results,
                    latest_epochs |-> latest_epochs,
                    done |-> st.done,
                    raised |-> st.raised]
        /\ UNCHANGED modelFolders

\* a fresh run; latest_epochs is not read on this branch
SaveConfigFilesFresh(dicts) ==
    \E dict_of_yamls \in dicts, reproduce_results \in BOOLEAN :
        SaveConfigFiles(dict_of_yamls, FALSE, reproduce_results, <<>>)

\* a resumed run; reproduce_results is not read on this branch
SaveConfigFilesResume(dicts, epoch_lists) ==
    \E dict_of_yamls \in dicts, latest_epochs \in epoch_lists :
        SaveConfigFiles(dict_of_yamls, TRUE, FALSE, latest_epochs)

(***************************************************************************)
(* The configuration store: fresh and resumed runs over the documents of   *)
(* two categories.                                                         *)
(***************************************************************************)
InitCfg ==
    /\ configFolderExists = FALSE
    /\ categoryFiles = Empty
    /\ diffFolders = Empty
    /\ modelFolders = Empty
    /\ call = [op |-> "none"]

CfgDicts == DictsOfYamls(CfgPaths, Docs)

NextCfg ==
    \/ SaveConfigFilesFresh(CfgDicts)
    \/ SaveConfigFilesResume(CfgDicts, CfgEpochLists)

SpecCfg == InitCfg /\ [][NextCfg]_vars

(***************************************************************************)
(* get_all_resume_training_config_diffs.                                   *)
(***************************************************************************)
\* glob("<config_folder>/resume_training_config_diffs_*"): the entries of the
\* config folder whose name starts with the base name
ConfigDiffs ==
    {name \in DOMAIN diffFolders \cup DOMAIN categoryFiles :
        StartsWith(name, DiffFolderBase)}

\* k.replace(full_base_path, ""): the full base path occurs in k only where
\* k starts, since it holds a path separator and an entry name holds none
StripBase(name) == SubSeq(name, Len(DiffFolderBase) + 1, Len(name))

\* list(itertools.product(prefixes, range(n))) as names "%s%d", prefix-major
ProductNames(prefixes, n) ==
    [j \in 1..(Len(prefixes) * n) |->
        prefixes[((j - 1) \div n) + 1] \o IntToStr((j - 1) % n)]

\* split_scheme_names: the product names, or the list [split_scheme_name],
\* whose one element is the argument itself
SplitSchemeNames(split_scheme_name, num_training_sets) ==
    IF num_training_sets > 1
    THEN [hashable |-> TRUE, items |-> ProductNames(split_scheme_name, num_training_sets)]
    ELSE [hashable |-> FALSE, items |-> <<split_scheme_name>>]

\* {split_scheme: epoch for (split_scheme, epoch) in zip(names, epochs)}
ZipDict(names, epochs) ==
    [nm \in {names[i] : i \in 1..Len(names) \cap 1..Len(epochs)} |->
        epochs[CHOOSE i \in 1..Len(names) \cap 1..Len(epochs) :
                   /\ names[i] = nm
                   /\ \A j \in 1..Len(names) \cap 1..Len(epochs) :
                          names[j] = nm => j <= i]]

\* the loop body for entry k: the parsed epochs, or the exception raised
ResumeEntry(k, split_scheme_names) ==
    With(Split(StripBase(k), "_"),
         LAMBDA parts :
             IF \E i \in 1..Len(parts) : ~IsIntLiteral(parts[i])
             THEN [raised |-> "ValueError", value |-> Empty]
             ELSE IF ~split_scheme_names.hashable
             THEN [raised |-> "TypeError", value |-> Empty]
             ELSE [raised |-> "none",
                   value |-> ZipDict(split_scheme_names.items,
                                     [i \in 1..Len(parts) |-> ParseInt(parts[i])])])

\* the loop over the sorted entries, entry by entry
ResumeEntries(split_scheme_names) ==
    [k \in ConfigDiffs |-> ResumeEntry(k, split_scheme_names)]

\* The call raises the exception of the first entry, in sorted order, that
\* raises one: one of the exceptions of the entries. It returns the mapping
\* only when no entry raises.
GetAllResumeTrainingConfigDiffs(split_scheme_name, num_training_sets) ==
    \E entries \in {ResumeEntries(SplitSchemeNames(split_scheme_name, num_training_sets))} :
        \E raised \in (IF \A k \in DOMAIN entries : entries[k].raised = "none"
                       THEN {"none"}
                       ELSE {entries[k].raised : k \in DOMAIN entries} \ {"none"}) :
            /\ call' = [op |-> "get_all_resume_training_config_diffs",
                        split_scheme_name |-> split_scheme_name,
                        num_training_sets |-> num_training_sets,
                        raised |-> raised,
                        result |-> IF raised = "none"
                                   THEN [k \in DOMAIN entries |-> entries[k].value]
                                   ELSE Empty]
            /\ UNCHANGED <<configFolderExists, categoryFiles, diffFolders, modelFolders>>

(***************************************************************************)
(* The resume diff folders: their names and what is read back from them.   *)
(* One category; a fresh run stores DocB, a resumed run passes DocA.       *)
(***************************************************************************)
Train == <<"t", "r", "a", "i", "n">>

Val == <<"v", "a", "l">>

\* the lists of sub-experiment name prefixes
PrefixLists == {<<Train>>, <<Train, Val>>}

\* num_training_sets ranges over 1..MaxTrainingSets
TrainingSets == 1..MaxTrainingSets

NameEpochLists == EpochLists({5, 12})

NameFreshDicts == DictsOfYamls(<<PathGeneral>>, {DocB})

NameResumeDicts == DictsOfYamls(<<PathGeneral>>, {DocA})

NextNames ==
    \/ SaveConfigFilesFresh(NameFreshDicts)
    \/ SaveConfigFilesResume(NameResumeDicts, NameEpochLists)
    \/ \E split_scheme_name \in PrefixLists, num_training_sets \in TrainingSets :
           GetAllResumeTrainingConfigDiffs(split_scheme_name, num_training_sets)

SpecNames == InitCfg /\ [][NextNames]_vars

(***************************************************************************)
(* The category of a document: single documents under paths of all shapes. *)
(***************************************************************************)
\* a base name with two dots under a directory that is no category
PathDotted == <<"c", "/", "a", ".", "b", ".", "y">>

\* a file of the root directory
PathRoot == <<"/", "r", ".", "y">>

AllPaths == <<PathGeneral, PathOptimizers, PathDotted, PathRoot, PathBare>>

PathDicts ==
    UNION {DictsOfYamls(<<AllPaths[i]>>, {DocB}) : i \in 1..Len(AllPaths)}

PathResumeDicts ==
    UNION {DictsOfYamls(<<AllPaths[i]>>, {DocA}) : i \in 1..Len(AllPaths)}

NextPaths ==
    \/ SaveConfigFilesFresh(PathDicts)
    \/ SaveConfigFilesResume(PathResumeDicts, {<<5>>})

SpecPaths == InitCfg /\ [][NextPaths]_vars

(***************************************************************************)
(* Checkpoints.                                                            *)
(* An object is [has_cpu, n_params, keys]: whether it has a cpu() method   *)
(* (a module has, an optimizer has not), the number of its parameters and  *)
(* the keys of its state dict. A checkpoint file is [ok, keys]: the keys   *)
(* of the state dict serialized into it, or ok = FALSE for a file that a   *)
(* failed write left incomplete.                                           *)
(***************************************************************************)
PthExt == <<".", "p", "t", "h">>

Trunk == <<"t", "r", "u", "n", "k">>

LossFunc == <<"l", "o", "s", "s">>

TrunkOptimizer ==
    <<"t", "r", "u", "n", "k", "_", "o", "p", "t", "i", "m", "i", "z", "e", "r">>

OptimizerWord == <<"o", "p", "t", "i", "m", "i", "z", "e", "r">>

KeyWeight == <<"w", "e", "i", "g", "h", "t">>

\* the key of the same parameter of a module wrapped in DataParallel
KeyModuleWeight == <<"m", "o", "d", "u", "l", "e", ".">> \o KeyWeight

KeyState == <<"s", "t", "a", "t", "e">>

KeyParamGroups == <<"p", "a", "r", "a", "m", "_", "g", "r", "o", "u", "p", "s">>

Module(wrapped) ==
    [has_cpu |-> TRUE, n_params |-> 1,
     keys |-> IF wrapped THEN {KeyModuleWeight} ELSE {KeyWeight}]

\* a module without parameters, such as a loss function
Stateless == [has_cpu |-> TRUE, n_params |-> 0, keys |-> {}]

Optimizer == [has_cpu |-> FALSE, n_params |-> 0, keys |-> {KeyState, KeyParamGroups}]

\* the dict of models of a trainer, in insertion order
InputDict(wrapped) ==
    <<[k |-> Trunk, v |-> Module(wrapped)],
      [k |-> LossFunc, v |-> Stateless],
      [k |-> TrunkOptimizer, v |-> Optimizer]>>

\* identifiers of a checkpoint: an epoch, "best" or None
Epoch(n) == [kind |-> "int", n |-> n, s |-> <<>>]

Best == [kind |-> "str", n |-> 0, s |-> <<"b", "e", "s", "t">>]

NoIdentifier == [kind |-> "none", n |-> 0, s |-> <<>>]

\* str(identifier)
StrOf(identifier) ==
    IF identifier.kind = "int" THEN IntToStr(identifier.n) ELSE identifier.s

\* experiment_filename: the name of the file in the folder
experiment_filename(basename, identifier) ==
    IF identifier.kind = "none"
    THEN basename \o PthExt
    ELSE basename \o <<"_">> \o StrOf(identifier) \o PthExt

\* sub in s
Contains(s, sub) ==
    \E i \in 1..(Len(s) - Len(sub) + 1) : SubSeq(s, i, i + Len(sub) - 1) = sub

\* the test of operate_on_dict_of_models; parameters() is not called on an
\* entry whose name contains "optimizer"
Operable(k, v) == Contains(k, OptimizerWord) \/ v.n_params > 0

\* torch.save into the file: it is written, cannot be opened, or is left
\* incomplete
TorchSave(files, model_path, keys, outcome) ==
    IF outcome = "ok" THEN Put(files, model_path, [ok |-> TRUE, keys |-> keys])
    ELSE IF outcome = "write_error" THEN Put(files, model_path, [ok |-> FALSE, keys |-> {}])
    ELSE files

\* the except branch of save_model_or_optimizer
SaveFallback(st, k, v, model_path, env) ==
    [files |-> TorchSave(st.files, model_path, v.keys, env.fallback),
     log |-> Append(st.log, [name |-> k, attempt |-> "fallback",
                             ok |-> env.fallback = "ok", keys |-> v.keys]),
     raised |-> IF env.fallback = "ok" THEN "none" ELSE "OSError"]

\* save_model_or_optimizer with the second torch.save run in every case
SaveThenSaveAgain(st, k, v, model_path, env) ==
    SaveFallback([st EXCEPT !.files = IF v.has_cpu
                                      THEN TorchSave(st.files, model_path, v.keys, env.first)
                                      ELSE st.files,
                            !.log = Append(st.log, [name |-> k, attempt |-> "first",
                                                    ok |-> v.has_cpu /\ env.first = "ok",
                                                    keys |-> v.keys])],
                 k, v, model_path, env)

\* save_model_or_optimizer: model.cpu() and torch.save, and on any exception
\* torch.save of the state as it is
save_model_or_optimizer(st, k, v, model_path, env) ==
    With([st EXCEPT !.files = IF v.has_cpu
                              THEN TorchSave(st.files, model_path, v.keys, env.first)
                              ELSE st.files,
                    !.log = Append(st.log, [name |-> k, attempt |-> "first",
                                            ok |-> v.has_cpu /\ env.first = "ok",
                                            keys |-> v.keys])],
         LAMBDA tried :
             IF v.has_cpu /\ env.first = "ok" THEN tried
             ELSE SaveFallback(tried, k, v, model_path, env))

\* the length of the prefix `module.` that load_model removes
PrefixLen == 7

\* new_state_dict: every key without its first seven characters
StripKeys(keys) == {SubSeq(k, PrefixLen + 1, Len(k)) : k \in keys}

\* torch.load succeeds on a complete file
Loadable(files, model_path) == model_path \in DOMAIN files /\ files[model_path].ok

\* the except branch of load_model
LoadFallback(st, k, v, model_path) ==
    IF ~Loadable(st.files, model_path)
    THEN [st EXCEPT !.log = Append(st.log, [name |-> k, attempt |-> "fallback",
                                            ok |-> FALSE, keys |-> {}]),
                    !.raised = "LoadError"]
    ELSE With(StripKeys(st.files[model_path].keys),
              LAMBDA new_state_dict :
                  [st EXCEPT !.log = Append(st.log,
                                            [name |-> k, attempt |-> "fallback",
                                             ok |-> new_state_dict = v.keys,
                                             keys |-> new_state_dict]),
                             !.raised = IF new_state_dict = v.keys THEN "none"
                                        ELSE "RuntimeError"])

\* load_model: load_state_dict accepts a state dict with the keys of the
\* object; on any exception the file is loaded again and its keys stripped
load_model(st, k, v, model_path) ==
    IF Loadable(st.files, model_path) /\ st.files[model_path].keys = v.keys
    THEN [st EXCEPT !.log = Append(st.log, [name |-> k, attempt |-> "first",
                                            ok |-> TRUE, keys |-> v.keys])]
    ELSE LoadFallback(
             [st EXCEPT !.log = Append(st.log,
                                       [name |-> k, attempt |-> "first", ok |-> FALSE,
                                        keys |-> IF Loadable(st.files, model_path)
                                                 THEN st.files[model_path].keys
                                                 ELSE {}])],
             k, v, model_path)

\* os.remove in try/except: a missing file is passed over
RemoveFile(st, model_path) ==
    [st EXCEPT !.files = [f \in DOMAIN st.files \ {model_path} |-> st.files[f]]]

\* operate_on_dict_of_models with the operation of save_dict_of_models
RECURSIVE SaveLoop(_, _, _, _, _)
SaveLoop(st, input_dict, suffix, env, i) ==
    IF i > Len(input_dict) \/ st.raised # "none" THEN st
    ELSE IF ~Operable(input_dict[i].k, input_dict[i].v)
    THEN SaveLoop(st, input_dict, suffix, env, i + 1)
    ELSE With(save_model_or_optimizer(st, input_dict[i].k, input_dict[i].v,
                                      experiment_filename(input_dict[i].k, suffix), env),
              LAMBDA next : SaveLoop(next, input_dict, suffix, env, i + 1))

\* operate_on_dict_of_models with the operation of load_dict_of_models
RECURSIVE LoadLoop(_, _, _, _)
LoadLoop(st, input_dict, suffix, i) ==
    IF i > Len(input_dict) \/ st.raised # "none" THEN st
    ELSE IF ~Operable(input_dict[i].k, input_dict[i].v)
    THEN LoadLoop(st, input_dict, suffix, i + 1)
    ELSE With(load_model(st, input_dict[i].k, input_dict[i].v,
                         experiment_filename(input_dict[i].k, suffix)),
              LAMBDA next : LoadLoop(next, input_dict, suffix, i + 1))

\* operate_on_dict_of_models with the operation of delete_dict_of_models
RECURSIVE DeleteLoop(_, _, _, _)
DeleteLoop(st, input_dict, suffix, i) ==
    IF i > Len(input_dict) THEN st
    ELSE IF ~Operable(input_dict[i].k, input_dict[i].v)
    THEN DeleteLoop(st, input_dict, suffix, i + 1)
    ELSE With(RemoveFile(st, experiment_filename(input_dict[i].k, suffix)),
              LAMBDA next : DeleteLoop(next, input_dict, suffix, i + 1))

\* the files of a folder; a folder that does not exist holds none
FilesOf(folder) == IF folder \in DOMAIN modelFolders THEN modelFolders[folder] ELSE Empty

StartOf(folder) == [files |-> FilesOf(folder), log |-> <<>>, raised |-> "none"]

\* the call record and the folder after a loop that ended in state st
Finish(op, st, folder, suffix, input_dict) ==
    /\ modelFolders' = Put(modelFolders, folder, st.files)
    /\ call' = [op |-> op, folder |-> folder, suffix |-> suffix,
                input_dict |-> input_dict, log |-> st.log, raised |-> st.raised]
    /\ UNCHANGED <<configFolderExists, categoryFiles, diffFolders>>

SaveDictOfModels(folders, suffixes, dicts, outcomes) ==
    \E folder \in folders, suffix \in suffixes, input_dict \in dicts,
       env \in [first : outcomes, fallback : outcomes] :
        \E st \in {SaveLoop(StartOf(folder), input_dict, suffix, env, 1)} :
            Finish("save_dict_of_models", st, folder, suffix, input_dict)

LoadDictOfModels(folders, suffixes, dicts) ==
    \E folder \in folders, suffix \in suffixes, input_dict \in dicts :
        \E st \in {LoadLoop(StartOf(folder), input_dict, suffix, 1)} :
            Finish("load_dict_of_models", st, folder, suffix, input_dict)

DeleteDictOfModels(folders, suffixes, dicts) ==
    \E folder \in folders, suffix \in suffixes, input_dict \in dicts :
        \E st \in {DeleteLoop(StartOf(folder), input_dict, suffix, 1)} :
            Finish("delete_dict_of_models", st, folder, suffix, input_dict)

(***************************************************************************)
(* latest_version and latest_sub_experiment_epochs.                        *)
(***************************************************************************)
BestPth == <<"b", "e", "s", "t">> \o PthExt

\* glob of "trunk_*.pth" in the folder
GlobTrunk(files) ==
    {x \in DOMAIN files :
        /\ Len(x) >= Len(Trunk) + 1 + Len(PthExt)
        /\ StartsWith(x, Trunk \o <<"_">>)
        /\ EndsWith(x, PthExt)}

\* x.split("_")[-1].split(".")[0]
VersionText(x) ==
    With(Split(x, "_"), LAMBDA pieces : Split(pieces[Len(pieces)], ".")[1])

\* latest_version: None for no match, else the maximum of the versions of
\* the matches that do not end in best.pth; int() of a text that is no
\* numeral and max() of no version raise ValueError
latest_version(files) ==
    With({x \in GlobTrunk(files) : ~EndsWith(x, BestPth)},
         LAMBDA items :
             IF GlobTrunk(files) = {}
             THEN [raised |-> "none", none |-> TRUE, value |-> 0]
             ELSE IF \E x \in items : ~IsIntLiteral(VersionText(x))
             THEN [raised |-> "ValueError", none |-> FALSE, value |-> 0]
             ELSE IF items = {}
             THEN [raised |-> "ValueError", none |-> FALSE, value |-> 0]
             ELSE [raised |-> "none", none |-> FALSE,
                   value |-> CHOOSE m \in {ParseInt(VersionText(x)) : x \in items} :
                                 \A x \in items : ParseInt(VersionText(x)) <= m])

\* latest_version(...) or 0
OrZero(r) == IF r.none \/ r.value = 0 THEN 0 ELSE r.value

\* latest_sub_experiment_epochs over the sub-experiments and their folders
LatestSubExperimentEpochs(sub_experiments) ==
    \E versions \in {[sub \in sub_experiments |-> latest_version(FilesOf(sub))]} :
        /\ call' = [op |-> "latest_sub_experiment_epochs",
                    raised |-> IF \A sub \in sub_experiments : versions[sub].raised = "none"
                               THEN "none"
                               ELSE "ValueError",
                    result |-> IF \A sub \in sub_experiments : versions[sub].raised = "none"
                               THEN [sub \in sub_experiments |-> OrZero(versions[sub])]
                               ELSE Empty]
        /\ UNCHANGED <<configFolderExists, categoryFiles, diffFolders, modelFolders>>

(***************************************************************************)
(* The checkpoints of two sub-experiments and their latest epochs.         *)
(***************************************************************************)
SubExperiments == {"train0", "train1"}

\* the identifiers a trainer saves under: the epochs and "best"
Identifiers == {Epoch(n) : n \in 1..MaxEpoch} \cup {Epoch(10), Best}

InitEpochs ==
    /\ configFolderExists = FALSE
    /\ categoryFiles = Empty
    /\ diffFolders = Empty
    /\ modelFolders = [sub \in SubExperiments |-> Empty]
    /\ call = [op |-> "none"]

NextEpochs ==
    \/ SaveDictOfModels(SubExperiments, Identifiers, {InputDict(FALSE)}, {"ok"})
    \/ DeleteDictOfModels(SubExperiments, Identifiers, {InputDict(FALSE)})
    \/ LatestSubExperimentEpochs(SubExperiments)

SpecEpochs == InitEpochs /\ [][NextEpochs]_vars

(***************************************************************************)
(* Saving and loading the checkpoints of one sub-experiment, with wrapped  *)
(* and plain modules and with writes that fail.                            *)
(***************************************************************************)
CkptFolders == {"train0"}

CkptIdentifiers == {Epoch(1), NoIdentifier}

CkptDicts == {InputDict(FALSE), InputDict(TRUE)}

SaveOutcomes == {"ok", "open_error", "write_error"}

NextCkpt ==
    \/ SaveDictOfModels(CkptFolders, CkptIdentifiers, CkptDicts, SaveOutcomes)
    \/ LoadDictOfModels(CkptFolders, CkptIdentifiers, CkptDicts)
    \/ DeleteDictOfModels(CkptFolders, CkptIdentifiers, CkptDicts)

SpecCkpt == InitEpochs /\ [][NextCkpt]_vars

(***************************************************************************)
(* Properties of save_config_files.                                        *)
(***************************************************************************)
IsSave(c) == c.op = "save_config_files"

\* the category file of the i-th document of call c
FileOfEntry(c, i) == CategoryFile(CategoryName(Split(c.dict_of_yamls[i].k, "/")))

\* the content of file fname of directory dir_name in dirs, <<>> when missing
ContentIn(dirs, dir_name, fname) ==
    IF dir_name \in DOMAIN dirs /\ fname \in DOMAIN dirs[dir_name]
    THEN dirs[dir_name][fname]
    ELSE <<>>

IsPrefix(s, t) == Len(s) <= Len(t) /\ SubSeq(t, 1, Len(s)) = s

\* the pairs of document new whose key is missing from cur or whose value differs
ChangedPairs(new, cur) ==
    [k \in {x \in DOMAIN new : x \notin DOMAIN cur \/ new[x] # cur[x]} |-> new[k]]

\* the non-empty sets of changed pairs of the documents of call c that were
\* processed and belong to file fname, against the stored documents in files
RECURSIVE ExpectedDiffs(_, _, _, _)
ExpectedDiffs(c, files, fname, i) ==
    IF i > c.done THEN <<>>
    ELSE (IF /\ FileOfEntry(c, i) = fname
             /\ ChangedPairs(c.dict_of_yamls[i].v, load_yaml(files[fname])) # Empty
          THEN <<ChangedPairs(c.dict_of_yamls[i].v, load_yaml(files[fname]))>>
          ELSE <<>>) \o ExpectedDiffs(c, files, fname, i + 1)

AllDiffFiles == UNION {DOMAIN diffFolders[d] : d \in DOMAIN diffFolders}

\* C1: a resumed save_config_files appends, for each document it processed,
\* exactly the pairs of the document whose key is absent from the stored
\* category document or whose value differs from the stored value, and
\* nothing when there is no such pair; equal pairs and keys only in the
\* stored document are never written.
DiffIsChangedPairs ==
    [][(IsSave(call') /\ call'.resume_training) =>
          \A d \in DOMAIN diffFolders' : \A f \in DOMAIN diffFolders'[d] :
              diffFolders'[d][f] =
                  ContentIn(diffFolders, d, f)
                      \o (IF d = DiffFolderName(call'.latest_epochs)
                          THEN ExpectedDiffs(call', categoryFiles, f, 1)
                          ELSE <<>>)]_vars

\* a resumed call wrote a diff that leaves out a key of its document, the
\* stored value being equal, while the stored document has a key of its own
DiffWitness ==
    /\ IsSave(call)
    /\ call.resume_training
    /\ call.raised = "none"
    /\ \E i \in 1..call.done :
          LET f == FileOfEntry(call, i)
              v == call.dict_of_yamls[i].v
              content == ContentIn(diffFolders, DiffFolderName(call.latest_epochs), f)
          IN  /\ content # <<>>
              /\ content[Len(content)] = [b |-> Dict([c |-> Scalar(2)])]
              /\ v = DocA
              /\ load_yaml(categoryFiles[f]) =
                     [a |-> Scalar(1), b |-> Dict([c |-> Scalar(2), d |-> Scalar(3)])]

\* the merge the fresh branch is to produce: at depth 0 every top-level key
\* of new replaces the stored value, otherwise nested mappings are merged
RECURSIVE DeepMerge(_, _)
DeepMerge(stored, new) ==
    [k \in DOMAIN stored \cup DOMAIN new |->
        IF k \in DOMAIN stored /\ k \in DOMAIN new
        THEN IF stored[k].isdict /\ new[k].isdict
             THEN Dict(DeepMerge(stored[k].d, new[k].d))
             ELSE new[k]
        ELSE IF k \in DOMAIN new THEN new[k] ELSE stored[k]]

ExpectedMerge(stored, new, reproduce_results) ==
    IF reproduce_results THEN Update(stored, new) ELSE DeepMerge(stored, new)

\* the content of file fname after the documents i.. of the fresh call c,
\* starting from content cur (<<>> when the file does not exist)
RECURSIVE ExpectedFresh(_, _, _, _)
ExpectedFresh(c, fname, i, cur) ==
    IF i > c.done THEN cur
    ELSE ExpectedFresh(c, fname, i + 1,
             IF FileOfEntry(c, i) # fname THEN cur
             ELSE IF cur = <<>> THEN <<c.dict_of_yamls[i].v>>
             ELSE <<ExpectedMerge(load_yaml(cur), c.dict_of_yamls[i].v,
                                  c.reproduce_results)>>)

\* C2: after a fresh save_config_files the file of each processed document
\* holds the document itself when the file did not exist, and otherwise the
\* merge of the stored document with it (top-level replacement with
\* reproduce_results, recursive merge without); the file holds that single
\* mapping, and no other file changes.
FreshWritesMerge ==
    [][(IsSave(call') /\ ~call'.resume_training) =>
          /\ diffFolders' = diffFolders
          /\ \A f \in DOMAIN categoryFiles' :
                categoryFiles'[f] =
                    ExpectedFresh(call', f, 1,
                                  IF f \in DOMAIN categoryFiles THEN categoryFiles[f]
                                  ELSE <<>>)
          /\ \A i \in 1..call'.done : FileOfEntry(call', i) \in DOMAIN categoryFiles'
          /\ DOMAIN categoryFiles \subseteq DOMAIN categoryFiles']_vars

\* the examples of the merge: {a:1, b:{c:2}} into {b:{c:1, d:3}} was stored
\* as {a:1, b:{c:2, d:3}} without reproduce_results
FreshWitness ==
    /\ IsSave(call)
    /\ ~call.resume_training
    /\ ~call.reproduce_results
    /\ call.done = 2
    /\ call.dict_of_yamls[1].v = DocA
    /\ categoryFiles[FileOfEntry(call, 1)] =
           <<[a |-> Scalar(1), b |-> Dict([c |-> Scalar(2), d |-> Scalar(3)])]>>
    /\ call.dict_of_yamls[2].v = DocB
    /\ categoryFiles[FileOfEntry(call, 2)] = <<DocB>>

\* every document of call c has a category file in files that agrees with it
\* on all its keys
AllEqualOnDisk(c, files) ==
    \A i \in 1..Len(c.dict_of_yamls) :
        /\ FileOfEntry(c, i) \in DOMAIN files
        /\ \A k \in DOMAIN c.dict_of_yamls[i].v :
              /\ k \in DOMAIN load_yaml(files[FileOfEntry(c, i)])
              /\ load_yaml(files[FileOfEntry(c, i)])[k] = c.dict_of_yamls[i].v[k]

\* some processed document of call c differs from its category file in files
SomeDiff(c, files) ==
    \E i \in 1..c.done :
        ChangedPairs(c.dict_of_yamls[i].v, load_yaml(files[FileOfEntry(c, i)])) # Empty

\* C3: a resumed save_config_files whose documents all equal their stored
\* category documents on all their keys creates no directory and no file and
\* changes none; a diff folder or a diff file is created or changed only by
\* a call in which some document has a non-empty diff.
EmptyDiffWritesNothing ==
    [][(IsSave(call') /\ call'.resume_training) =>
          /\ AllEqualOnDisk(call', categoryFiles) =>
                 (diffFolders' = diffFolders /\ categoryFiles' = categoryFiles)
          /\ diffFolders' # diffFolders => SomeDiff(call', categoryFiles)]_vars

\* a resumed call over two documents, both equal to what is stored, has run
\* to its end and there is no diff folder
EmptyDiffWitness ==
    /\ IsSave(call)
    /\ call.resume_training
    /\ call.raised = "none"
    /\ call.done = 2
    /\ AllEqualOnDisk(call, categoryFiles)
    /\ diffFolders = Empty

\* C7: no step removes a resume diff folder or a file of one, and the
\* content of every diff file after the step starts with its content before
\* the step: a resumed call only appends, in order, to what earlier calls wrote.
DiffFilesOnlyGrow ==
    [][\A d \in DOMAIN diffFolders :
          /\ d \in DOMAIN diffFolders'
          /\ \A f \in DOMAIN diffFolders[d] :
                /\ f \in DOMAIN diffFolders'[d]
                /\ IsPrefix(diffFolders[d][f], diffFolders'[d][f])]_vars

\* a diff file holds the diffs of two calls
AppendWitness ==
    /\ IsSave(call)
    /\ call.resume_training
    /\ \E f \in AllDiffFiles :
          Len(ContentIn(diffFolders, DiffFolderName(call.latest_epochs), f)) = 2

\* C10: a resumed save_config_files leaves every category file as it was: it
\* creates, changes and deletes none of them.
ResumeKeepsCategoryFiles ==
    [][(IsSave(call') /\ call'.resume_training) => categoryFiles' = categoryFiles]_vars

\* a resumed call has written a diff for each of its two documents
ResumeWitness ==
    /\ IsSave(call)
    /\ call.resume_training
    /\ call.done = 2
    /\ \A i \in 1..2 :
          ContentIn(diffFolders, DiffFolderName(call.latest_epochs),
                    FileOfEntry(call, i)) # <<>>

(***************************************************************************)
(* Properties of the names: resume diff folders and categories.            *)
(***************************************************************************)
\* name is the base name followed by the decimal numerals of epochs, one per
\* epoch, in order, separated by underscores
NamesEpochs(name, epochs) ==
    /\ StartsWith(name, DiffFolderBase)
    /\ LET parts == Split(SubSeq(name, Len(DiffFolderBase) + 1, Len(name)), "_")
       IN  /\ Len(parts) = Len(epochs)
           /\ \A i \in 1..Len(parts) :
                 /\ IsIntLiteral(parts[i])
                 /\ Len(parts[i]) > 1 => parts[i][1] # "0"
                 /\ ParseInt(parts[i]) = epochs[i]

\* C4: the folder a resumed save_config_files creates or writes into is
\* named resume_training_config_diffs_ followed by the epochs it was given,
\* one numeral per sub-experiment, joined by underscores in the given order.
DiffFolderNamedByEpochs ==
    [][(IsSave(call') /\ call'.resume_training) =>
          \A d \in DOMAIN diffFolders' :
              (d \notin DOMAIN diffFolders \/ diffFolders'[d] # diffFolders[d]) =>
                  NamesEpochs(d, call'.latest_epochs)]_vars

\* the epochs 5 and 5 of two sub-experiments made resume_training_config_diffs_5_5,
\* and the epochs 5 and 12 an earlier folder
NameWitness ==
    /\ IsSave(call)
    /\ call.resume_training
    /\ call.latest_epochs = <<5, 5>>
    /\ call.done = 1
    /\ DOMAIN diffFolders = {DiffFolderBase \o <<"5", "_", "5">>,
                             DiffFolderBase \o <<"5", "_", "1", "2">>}

\* the names get_all_resume_training_config_diffs is to pair with the epochs
ExpectedNames(prefixes, n) ==
    IF n = 1 THEN prefixes
    ELSE [j \in 1..(Len(prefixes) * n) |->
             prefixes[((j - 1) \div n) + 1] \o IntToStr((j - 1) % n)]

\* m maps the i-th name to the i-th epoch, for as many as there are of both
PairsInOrder(m, names, epochs) ==
    /\ DOMAIN m = {names[i] : i \in 1..Len(names) \cap 1..Len(epochs)}
    /\ \A i \in 1..Len(names) \cap 1..Len(epochs) : m[names[i]] = epochs[i]

\* C6: get_all_resume_training_config_diffs returns, for every resume diff
\* folder, the mapping that pairs the i-th sub-experiment name with the i-th
\* epoch of the folder name, the names being the prefixes themselves for one
\* training set and the prefix-major product of prefixes and indices for
\* more; a folder written for an epoch list is read back as that list.
DiffFoldersReadBack ==
    (call.op = "get_all_resume_training_config_diffs") =>
        /\ call.raised = "none"
        /\ DOMAIN call.result = DOMAIN diffFolders
        /\ \A k \in DOMAIN diffFolders :
              \E epochs \in NameEpochLists :
                  /\ NamesEpochs(k, epochs)
                  /\ PairsInOrder(call.result[k],
                                  ExpectedNames(call.split_scheme_name,
                                                call.num_training_sets),
                                  epochs)

\* the category the document read from path k is to get
ExpectedCategory(k) ==
    LET segments == Split(k, "/")
        n == Len(segments)
    IN  IF n >= 2 /\ StartsWith(segments[n - 1], ConfigPrefix)
        THEN segments[n - 1]
        ELSE SplitExtRoot(segments[n])

\* C8: for every path of a document, also one without a directory part, the
\* category is the second-to-last segment when that starts with config_ and
\* the base name without its extension otherwise: a fresh save_config_files
\* writes the file of that category for each of its documents.
CategoryForEveryPath ==
    (IsSave(call) /\ ~call.resume_training) =>
        \A i \in 1..Len(call.dict_of_yamls) :
            /\ call.raised = "none"
            /\ (ExpectedCategory(call.dict_of_yamls[i].k) \o YamlExt)
                   \in DOMAIN categoryFiles

(***************************************************************************)
(* Properties of the checkpoints.                                          *)
(***************************************************************************)
\* the position of the last underscore of x, 0 when there is none
LastUnderscore(x) ==
    IF \A i \in 1..Len(x) : x[i] # "_" THEN 0
    ELSE CHOOSE i \in 1..Len(x) : x[i] = "_" /\ \A j \in (i + 1)..Len(x) : x[j] # "_"

\* the files of the scan: trunk_<anything>.pth that do not end in best.pth
Versioned(files) ==
    {x \in DOMAIN files :
        /\ StartsWith(x, Trunk \o <<"_">>)
        /\ EndsWith(x, PthExt)
        /\ Len(x) >= Len(Trunk) + 1 + Len(PthExt)
        /\ ~EndsWith(x, BestPth)}

\* the integer before the extension of x
TrailingInt(x) == ParseInt(SubSeq(x, LastUnderscore(x) + 1, Len(x) - Len(PthExt)))

ExpectedLatest(files) ==
    IF Versioned(files) = {} THEN 0
    ELSE CHOOSE m \in {TrailingInt(x) : x \in Versioned(files)} :
             \A x \in Versioned(files) : TrailingInt(x) <= m

\* C5: latest_sub_experiment_epochs returns, for every sub-experiment, the
\* maximum trailing integer of the files trunk_*.pth of its folder that do
\* not end in best.pth, and 0 when there is no such file; it does not fail.
LatestEpochIsMaxVersion ==
    (call.op = "latest_sub_experiment_epochs") =>
        /\ call.raised = "none"
        /\ \A sub \in SubExperiments :
              call.result[sub] = ExpectedLatest(FilesOf(sub))

IsCheckpointCall(c) == c.op \in {"save_dict_of_models", "load_dict_of_models"}

\* C9: save and load make at most two attempts per entry; the fallback runs
\* exactly when the first attempt failed and right after it, it serializes
\* the same state (save) or installs the state with the first 7 characters
\* of every key removed (load); a failed fallback ends the call with its
\* exception, and nothing else does.
AtMostTwoAttempts ==
    IsCheckpointCall(call) =>
        LET log == call.log
            n == Len(call.log)
        IN  /\ \A e \in 1..Len(call.input_dict) :
                  Cardinality({j \in 1..n : log[j].name = call.input_dict[e].k}) <= 2
            /\ \A j \in 1..n :
                  /\ log[j].attempt = "fallback" =>
                         /\ j > 1
                         /\ log[j - 1].name = log[j].name
                         /\ log[j - 1].attempt = "first"
                         /\ ~log[j - 1].ok
                         /\ log[j].keys =
                                IF call.op = "save_dict_of_models"
                                THEN log[j - 1].keys
                                ELSE {SubSeq(k, 8, Len(k)) : k \in log[j - 1].keys}
                  /\ (log[j].attempt = "first" /\ ~log[j].ok) =>
                         /\ j < n
                         /\ log[j + 1].attempt = "fallback"
                         /\ log[j + 1].name = log[j].name
                  /\ (log[j].attempt = "first" /\ log[j].ok) =>
                         (j = n \/ log[j + 1].name # log[j].name)
                  /\ (log[j].attempt = "fallback" /\ ~log[j].ok) =>
                         (j = n /\ call.raised # "none")
            /\ call.raised # "none" =>
                   (n > 0 /\ log[n].attempt = "fallback" /\ ~log[n].ok)

\* a plain module was loaded from the file of a wrapped one by the fallback,
\* the keys stripped to the plain ones, and the optimizer then at once
AttemptsWitness ==
    /\ call.op = "load_dict_of_models"
    /\ call.raised = "none"
    /\ Len(call.log) = 3
    /\ call.log[1] = [name |-> Trunk, attempt |-> "first", ok |-> FALSE,
                      keys |-> {KeyModuleWeight}]
    /\ call.log[2] = [name |-> Trunk, attempt |-> "fallback", ok |-> TRUE,
                      keys |-> {KeyWeight}]
    /\ call.log[3].name = TrunkOptimizer
    /\ call.log[3].attempt = "first"
    /\ call.log[3].ok

====
